---- MODULE Spec2Model ----
(***************************************************************************)
(* A model of ctapipe.io.hdftableio: the TableWriter registry of column    *)
(* exclusions and transforms, and SimpleHDF5TableWriter, which infers a    *)
(* table schema from the first container written under a table name and    *)
(* appends one row per write.                                              *)
(*                                                                         *)
(* Python values are records [kind, dtype, v, unit]: kind is the runtime   *)
(* type name (type(value).__name__, "ndarray", "Quantity"), dtype the      *)
(* dtype name of an array, v the payload as a sequence of integers (one    *)
(* element for a scalar) and unit the unit of a Quantity.  Column names,   *)
(* patterns and header keys are sequences of strings, so that a prefix     *)
(* match is computed and not looked up.                                    *)
(***************************************************************************)
EXTENDS Integers, Sequences, FiniteSets, TLC

VARIABLES _transforms, _exclusions, _schemas, _tables, created, first_write, last, ncalls

vars == <<_transforms, _exclusions, _schemas, _tables, created, first_write, last, ncalls>>

\* The number of API calls made on the writer in one behaviour.
MaxCalls == 3

TableNames == {"A", "B"}

-----------------------------------------------------------------------------
(* Mappings (Python dicts) *)

EmptyMap == [k \in {} |-> ""]

Put(m, k, x) == [j \in DOMAIN m \cup {k} |-> IF j = k THEN x ELSE m[j]]

\* dict.update: the keys of m2 win
Update(m1, m2) == [j \in DOMAIN m1 \cup DOMAIN m2 |-> IF j \in DOMAIN m2 THEN m2[j] ELSE m1[j]]

-----------------------------------------------------------------------------
(* Values *)

Val(k, d, s, u) == [kind |-> k, dtype |-> d, v |-> s, unit |-> u]

PyInt(n) == Val("int", "", <<n>>, "")
PyFloat(n) == Val("float", "", <<n>>, "")
PyList(s) == Val("list", "", s, "")
Quantity(n, u) == Val("Quantity", "", <<n>>, u)
ndarray(d, s) == Val("ndarray", d, s, "")

\* the outcome of a call that raises
Raised == Val("raise", "", <<>>, "")

\* no unit declared for a field (Item.unit is None)
None == ""

\* astropy units: GeV and TeV are energies, s is a time
PhysicalType == [GeV |-> "energy", TeV |-> "energy", s |-> "time"]
UnitScale == [GeV |-> 1, TeV |-> 1000, s |-> 1]

\* Quantity.to(unit): raises UnitConversionError between physical types
to(quantity, unit) ==
    IF PhysicalType[quantity.unit] # PhysicalType[unit]
    THEN Raised
    ELSE Quantity((quantity.v[1] * UnitScale[quantity.unit]) \div UnitScale[unit], unit)

\* Quantity.value: the bare magnitude, a Python float
value(x) == IF x.kind = "Quantity" THEN PyFloat(x.v[1]) ELSE Raised

\* quantity.to(unit).value; either call may raise
tr_convert_and_strip_unit(quantity, unit) ==
    IF quantity.kind # "Quantity" THEN Raised ELSE value(to(quantity, unit))

tr_list_to_mask(thelist, length) ==
    IF thelist.kind \notin {"list", "int"} THEN Raised
    ELSE IF \E i \in 1..Len(thelist.v) : thelist.v[i] >= length \/ thelist.v[i] < 0 - length
    THEN Raised
    ELSE ndarray("bool", [j \in 1..length |->
             IF \E i \in 1..Len(thelist.v) : (thelist.v[i] + length) % length = j - 1
             THEN 1 ELSE 0])

-----------------------------------------------------------------------------
(* Transforms: the callables stored in the registry *)

partial_convert(unit) == [fn |-> "tr_convert_and_strip_unit", unit |-> unit, length |-> 0]
lambda_value == [fn |-> "lambda x: x.value", unit |-> "", length |-> 0]
partial_mask(length) == [fn |-> "tr_list_to_mask", unit |-> "", length |-> length]

Call(tr, x) ==
    CASE tr.fn = "tr_convert_and_strip_unit" -> tr_convert_and_strip_unit(x, tr.unit)
      [] tr.fn = "lambda x: x.value" -> value(x)
      [] tr.fn = "tr_list_to_mask" -> tr_list_to_mask(x, tr.length)

-----------------------------------------------------------------------------
(* Column names and patterns *)

ENERGY == <<"e">>
EVENT_ID == <<"i", "d">>
RAW_ID == <<"r", "i", "d">>

ColNames == {ENERGY, EVENT_ID, RAW_ID}

\* literal patterns; re.compile(p).match(name) succeeds iff p is a prefix of name
Patterns == {<<"i", "d">>, <<"r">>, <<"e">>}

\* re.search: the pattern occurs at some position of the name
match_Search(pattern, col_name) ==
    \E k \in 0..Len(col_name) :
        /\ k + Len(pattern) <= Len(col_name)
        /\ \A i \in 1..Len(pattern) : pattern[i] = col_name[k + i]

match(pattern, col_name) ==
    /\ Len(pattern) <= Len(col_name)
    /\ \A i \in 1..Len(pattern) : pattern[i] = col_name[i]

\* an exclusion that asks for a match of the whole name (fullmatch)
_is_column_excluded_Full(exclusions, table_name, col_name) ==
    \E i \in 1..Len(exclusions[table_name]) : exclusions[table_name][i] = col_name

_is_column_excluded(exclusions, table_name, col_name) ==
    \E i \in 1..Len(exclusions[table_name]) : match(exclusions[table_name][i], col_name)

ord == [d |-> 100, e |-> 101, i |-> 105, r |-> 114]

\* Python's order on str
RECURSIVE StrLess(_, _)
StrLess(a, b) ==
    IF Len(a) = 0 THEN Len(b) > 0
    ELSE IF Len(b) = 0 THEN FALSE
    ELSE IF ord[a[1]] # ord[b[1]] THEN ord[a[1]] < ord[b[1]]
    ELSE StrLess(Tail(a), Tail(b))

\* Table.colnames: the columns of a description without positions, by name
RECURSIVE colnames(_)
colnames(S) ==
    IF S = {} THEN <<>>
    ELSE LET m == CHOOSE x \in S : \A y \in S \ {x} : StrLess(x, y)
         IN <<m>> \o colnames(S \ {m})

-----------------------------------------------------------------------------
(* Containers: ordered fields with a declared unit each, and a meta mapping *)

Field(name, val, unit) == [name |-> name, value |-> val, unit |-> unit]
Container(items, meta) == [items |-> items, meta |-> meta]

HasField(container, name) == \E i \in 1..Len(container.items) : container.items[i].name = name

\* the field of a name: its value and its container.attributes[name].unit
GetField(container, name) ==
    container.items[CHOOSE i \in 1..Len(container.items) : container.items[i].name = name]

\* container[name]
GetItem(container, name) == GetField(container, name).value

\* '{}_UNIT'.format(col_name)
UnitKey(col_name) == Append(col_name, "_UNIT")
VersionKey == <<"CTAPIPE_VERSION">>
RunKey == <<"RUN">>

\* ctapipe.__version__
ctapipe_version == "0.5"

C_TeV == Container(<<Field(ENERGY, Quantity(10, "TeV"), "GeV"),
                     Field(EVENT_ID, PyInt(42), None)>>, EmptyMap)
C_GeV == Container(<<Field(ENERGY, Quantity(2000, "GeV"), "GeV"),
                     Field(EVENT_ID, PyInt(7), None)>>, Put(EmptyMap, RunKey, "r2"))
C_NoId == Container(<<Field(ENERGY, Quantity(3, "TeV"), None)>>, Put(EmptyMap, RunKey, "r1"))
C_NoUnit == Container(<<Field(ENERGY, Quantity(4000, "GeV"), None),
                        Field(EVENT_ID, PyInt(8), None)>>,
                      Put(EmptyMap, UnitKey(ENERGY), "custom"))
C_Time == Container(<<Field(ENERGY, Quantity(5, "s"), "GeV")>>, EmptyMap)
C_Wave2 == Container(<<Field(EVENT_ID, PyInt(3), None),
                       Field(RAW_ID, ndarray("float64", <<1, 2>>), None)>>, EmptyMap)
C_Wave3 == Container(<<Field(EVENT_ID, PyInt(4), None),
                       Field(RAW_ID, ndarray("float64", <<1, 2, 3>>), None)>>,
                     Put(EmptyMap, VersionKey, "0.4"))
C_WaveInt == Container(<<Field(ENERGY, Quantity(1, "TeV"), "GeV"),
                         Field(RAW_ID, ndarray("int64", <<1, 2>>), None)>>,
                       Put(EmptyMap, UnitKey(ENERGY), "custom"))
C_List == Container(<<Field(EVENT_ID, PyInt(1), None),
                      Field(RAW_ID, PyList(<<1, 1>>), None)>>, EmptyMap)

Containers == {C_TeV, C_GeV, C_NoId, C_NoUnit, C_Time, C_Wave2, C_Wave3, C_WaveInt, C_List}

\* the transforms a caller registers
UserTransforms == {partial_convert("TeV"), partial_mask(2)}

-----------------------------------------------------------------------------
(* Schema inference *)

PYTABLES_TYPE_MAP ==
    [float |-> "Float64Col", float64 |-> "Float64Col", float32 |-> "Float32Col",
     int |-> "IntCol", bool |-> "BoolCol"]

\* a pytables column: its class and its shape (<<>> for a scalar column)
Col(coltype, shape) == [type |-> coltype, shape |-> shape]

\* lines 164-171: the transform built for a Quantity field, and its unit string
QuantityTransform(item) ==
    IF item.unit # None THEN partial_convert(item.unit) ELSE lambda_value

QuantityUnit(item) ==
    IF item.unit # None THEN item.unit ELSE item.value.unit

\* line 173: the value whose type decides the column
InferredValue(transforms, item) ==
    IF item.value.kind = "Quantity" THEN Call(QuantityTransform(item), item.value)
    ELSE item.value

\* lines 176-185: [exc, cols] for one value
ColumnFor(columns, col_name, val) ==
    IF val.kind = "ndarray"
    THEN IF val.dtype \in DOMAIN PYTABLES_TYPE_MAP
         THEN [exc |-> "", columns |-> Put(columns, col_name,
                                           Col(PYTABLES_TYPE_MAP[val.dtype], <<Len(val.v)>>))]
         ELSE [exc |-> "KeyError", columns |-> columns]
    ELSE IF val.kind \in DOMAIN PYTABLES_TYPE_MAP
         THEN [exc |-> "", columns |-> Put(columns, col_name,
                                           Col(PYTABLES_TYPE_MAP[val.kind], <<>>))]
         ELSE [exc |-> "", columns |-> columns]

\* lines 176-188 for a field whose value is val after line 173: the column
\* joins the schema, the transform built for a Quantity is registered
AddColumn(acc, item, c) ==
    [transforms |-> IF item.value.kind = "Quantity"
                    THEN Put(acc.transforms, item.name, QuantityTransform(item))
                    ELSE acc.transforms,
     columns |-> c.columns,
     meta |-> IF item.value.kind = "Quantity"
              THEN Put(acc.meta, UnitKey(item.name), QuantityUnit(item))
              ELSE acc.meta,
     exc |-> c.exc]

InferColumn(acc, item, val) ==
    IF val = Raised THEN [acc EXCEPT !.exc = "TransformError"]
    ELSE AddColumn(acc, item, ColumnFor(acc.columns, item.name, val))

\* one iteration of the loop of lines 155-188 on the accumulated
\* [transforms, columns, meta, exc]; transforms is the table's transform map
InferField(exclusions, table_name, acc, item) ==
    IF _is_column_excluded(exclusions, table_name, item.name) THEN acc
    ELSE InferColumn(acc, item, InferredValue(acc.transforms, item))

RECURSIVE InferFields(_, _, _, _, _)
InferFields(exclusions, table_name, items, n, acc) ==
    IF n > Len(items) \/ acc.exc # "" THEN acc
    ELSE InferFields(exclusions, table_name, items, n + 1,
                     InferField(exclusions, table_name, acc, items[n]))

\* lines 190-192
ReturnMeta(acc) ==
    IF acc.exc # "" THEN acc
    ELSE [acc EXCEPT !.meta = Put(acc.meta, VersionKey, ctapipe_version)]

\* [transforms, columns, meta, exc]: the table's transforms afterwards, the
\* Schema's columns, the returned meta, and the exception raised if any
_create_hdf5_table_schema(exclusions, transforms, table_name, container) ==
    ReturnMeta(InferFields(exclusions, table_name, container.items, 1,
                           [transforms |-> transforms[table_name], columns |-> EmptyMap,
                            meta |-> EmptyMap, exc |-> ""]))

-----------------------------------------------------------------------------
(* Table setup and row append.  st is the writer while a call runs:       *)
(* [transforms, schemas, tables, created, exc], exc the exception raised. *)

\* line 200: meta.update(container.meta)
HeaderMeta(meta, container) == Update(meta, container.meta)

\* lines 202-209: the table created in the file, its header attributes set
create_table(description, meta) ==
    [colnames |-> colnames(DOMAIN description), description |-> description,
     attrs |-> meta, rows |-> <<>>]

\* lines 200-209 once inference has returned inf; backend_ok: whether
\* h5file.create_table succeeds
SetupWith(st, table_name, container, backend_ok, inf) ==
    IF inf.exc # ""
    THEN [st EXCEPT !.transforms[table_name] = inf.transforms, !.exc = inf.exc]
    ELSE IF ~backend_ok
    THEN [st EXCEPT !.transforms[table_name] = inf.transforms,
                    !.schemas = Put(st.schemas, table_name, inf.columns),
                    !.exc = "BackendIOError"]
    ELSE [st EXCEPT !.transforms[table_name] = inf.transforms,
                    !.schemas = Put(st.schemas, table_name, inf.columns),
                    !.tables = Put(st.tables, table_name,
                                   create_table(inf.columns, HeaderMeta(inf.meta, container))),
                    !.created[table_name] = @ + 1]

_setup_new_table(exclusions, st, table_name, container, backend_ok) ==
    SetupWith(st, table_name, container, backend_ok,
              _create_hdf5_table_schema(exclusions, st.transforms, table_name, container))

\* numpy's cast of a payload to the column's type
Cast(coltype, s) ==
    IF coltype = "BoolCol" THEN [i \in 1..Len(s) |-> IF s[i] # 0 THEN 1 ELSE 0] ELSE s

ShapeOf(val) == IF val.kind \in {"ndarray", "list"} THEN <<Len(val.v)>> ELSE <<>>

IsNumeric(val) ==
    val.kind \in {"int", "float", "bool", "float64", "float32", "int64", "ndarray", "list"}

\* line 229, row[colname] = value: the backend stores a numeric value of the
\* column's shape and raises on any other
SetColumn(col, val) ==
    IF IsNumeric(val) /\ ShapeOf(val) = col.shape
    THEN [exc |-> "", cell |-> Cast(col.type, val.v)]
    ELSE [exc |-> "ShapeMismatchError", cell |-> <<>>]

\* an append that stores the raw value of every column
RowValue_Raw(transforms, table_name, colname, container) == GetItem(container, colname)

\* lines 222-227: the value of one column, Raised if the transform raises
RowValue(transforms, table_name, colname, container) ==
    IF colname \in DOMAIN transforms[table_name]
    THEN Call(transforms[table_name][colname], GetItem(container, colname))
    ELSE GetItem(container, colname)

\* lines 227-229 for the value val of the column
StoreValue(col, val) ==
    IF val = Raised THEN [exc |-> "TransformError", cell |-> <<>>] ELSE SetColumn(col, val)

\* lines 222-229 for one column: [exc, cell]
FillColumn(transforms, table, table_name, container, colname) ==
    IF ~HasField(container, colname) THEN [exc |-> "MissingFieldError", cell |-> <<>>]
    ELSE StoreValue(table.description[colname],
                    RowValue(transforms, table_name, colname, container))

\* the row buffer acc = [row, exc] after a column gave res
SetCell(acc, colname, res) ==
    IF res.exc # "" THEN [acc EXCEPT !.exc = res.exc]
    ELSE [acc EXCEPT !.row = Put(acc.row, colname, res.cell)]

\* the loop of lines 220-229 from the n-th column on
RECURSIVE FillRow(_, _, _, _, _, _)
FillRow(transforms, table, table_name, container, n, acc) ==
    IF n > Len(table.colnames) \/ acc.exc # "" THEN acc
    ELSE FillRow(transforms, table, table_name, container, n + 1,
                 SetCell(acc, table.colnames[n],
                         FillColumn(transforms, table, table_name, container,
                                    table.colnames[n])))

\* a row.append() that also runs when a column raised
AppendFilled_Always(st, table_name, filled) ==
    [st EXCEPT !.exc = filled.exc, !.tables[table_name].rows = Append(@, filled.row)]

\* line 231, row.append(), reached if no column raised
AppendFilled(st, table_name, filled) ==
    IF filled.exc # "" THEN [st EXCEPT !.exc = filled.exc]
    ELSE [st EXCEPT !.tables[table_name].rows = Append(@, filled.row)]

_append_row(st, table_name, container) ==
    IF table_name \notin DOMAIN st.tables THEN [st EXCEPT !.exc = "TablesKeyError"]
    ELSE AppendFilled(st, table_name,
                      FillRow(st.transforms, st.tables[table_name], table_name,
                              container, 1, [row |-> EmptyMap, exc |-> ""]))

\* a writer that sets the table up on every write
NeedsSetup_Always(schemas, table_name) == TRUE

\* line 248
NeedsSetup(schemas, table_name) == table_name \notin DOMAIN schemas

\* line 251, reached if the setup did not raise
AppendAfterSetup(st, table_name, container) ==
    IF st.exc # "" THEN st ELSE _append_row(st, table_name, container)

\* lines 248-251 on the writer st
DoWrite(exclusions, st, table_name, container, backend_ok) ==
    IF NeedsSetup(st.schemas, table_name)
    THEN AppendAfterSetup(_setup_new_table(exclusions, st, table_name, container, backend_ok),
                          table_name, container)
    ELSE _append_row(st, table_name, container)

-----------------------------------------------------------------------------
(* The writer *)

\* first_write[t] is how the first write call for t ended ("" for a return,
\* "none" before it), last is the latest call and the exception it raised.
Init ==
    /\ _transforms = [t \in TableNames |-> EmptyMap]
    /\ _exclusions = [t \in TableNames |-> <<>>]
    /\ _schemas = EmptyMap
    /\ _tables = EmptyMap
    /\ created = [t \in TableNames |-> 0]
    /\ first_write = [t \in TableNames |-> "none"]
    /\ last = [op |-> "__init__", table_name |-> "", exc |-> ""]
    /\ ncalls = 0

\* an exclude that also drops the matching columns of a stored schema
exclude_Prune(table_name, pattern) ==
    /\ ncalls < MaxCalls
    /\ _exclusions' = [_exclusions EXCEPT ![table_name] = Append(@, pattern)]
    /\ _schemas' = [t \in DOMAIN _schemas |->
                      IF t # table_name THEN _schemas[t]
                      ELSE [col \in {x \in DOMAIN _schemas[t] : ~match(pattern, x)} |->
                               _schemas[t][col]]]
    /\ last' = [op |-> "exclude", table_name |-> table_name, exc |-> ""]
    /\ ncalls' = ncalls + 1
    /\ UNCHANGED <<_transforms, _tables, created, first_write>>

exclude(table_name, pattern) ==
    /\ ncalls < MaxCalls
    /\ _exclusions' = [_exclusions EXCEPT ![table_name] = Append(@, pattern)]
    /\ last' = [op |-> "exclude", table_name |-> table_name, exc |-> ""]
    /\ ncalls' = ncalls + 1
    /\ UNCHANGED <<_transforms, _schemas, _tables, created, first_write>>

\* a registration that keeps a transform already registered (setdefault)
add_column_transform_KeepFirst(table_name, col_name, transform) ==
    /\ ncalls < MaxCalls
    /\ _transforms' = [_transforms EXCEPT ![table_name] =
                          IF col_name \in DOMAIN @ THEN @ ELSE Put(@, col_name, transform)]
    /\ last' = [op |-> "add_column_transform", table_name |-> table_name, exc |-> ""]
    /\ ncalls' = ncalls + 1
    /\ UNCHANGED <<_exclusions, _schemas, _tables, created, first_write>>

\* a registry keyed by column name alone: the transform is registered for the
\* column in every table
add_column_transform_AllTables(table_name, col_name, transform) ==
    /\ ncalls < MaxCalls
    /\ _transforms' = [t \in TableNames |-> Put(_transforms[t], col_name, transform)]
    /\ last' = [op |-> "add_column_transform", table_name |-> table_name, exc |-> ""]
    /\ ncalls' = ncalls + 1
    /\ UNCHANGED <<_exclusions, _schemas, _tables, created, first_write>>

add_column_transform(table_name, col_name, transform) ==
    /\ ncalls < MaxCalls
    /\ _transforms' = [_transforms EXCEPT ![table_name] = Put(@, col_name, transform)]
    /\ last' = [op |-> "add_column_transform", table_name |-> table_name, exc |-> ""]
    /\ ncalls' = ncalls + 1
    /\ UNCHANGED <<_exclusions, _schemas, _tables, created, first_write>>

\* the writer as the call leaves it
Leave(table_name, st) ==
    /\ _transforms' = st.transforms
    /\ _schemas' = st.schemas
    /\ _tables' = st.tables
    /\ created' = st.created
    /\ last' = [op |-> "write", table_name |-> table_name, exc |-> st.exc]
    /\ first_write' = IF first_write[table_name] = "none"
                      THEN [first_write EXCEPT ![table_name] = st.exc]
                      ELSE first_write

write(table_name, container, backend_ok) ==
    /\ ncalls < MaxCalls
    /\ Leave(table_name,
             DoWrite(_exclusions,
                     [transforms |-> _transforms, schemas |-> _schemas,
                      tables |-> _tables, created |-> created, exc |-> ""],
                     table_name, container, backend_ok))
    /\ ncalls' = ncalls + 1
    /\ UNCHANGED _exclusions

Next ==
    \/ \E t \in TableNames, p \in Patterns : exclude(t, p)
    \/ \E t \in TableNames, c \in ColNames, tr \in UserTransforms : add_column_transform(t, c, tr)
    \/ \E t \in TableNames, c \in Containers, ok \in BOOLEAN : write(t, c, ok)

Spec == Init /\ [][Next]_vars

-----------------------------------------------------------------------------
(* Vocabulary of the properties *)

\* the table has a schema stored / a table in the file
Registered(t) == t \in DOMAIN _schemas
Active(t) == t \in DOMAIN _tables

\* over a step: the call of the step is a write to t, and how it ended
WriteCall(t) == last'.op = "write" /\ last'.table_name = t
WriteOk(t) == WriteCall(t) /\ last'.exc = ""
WriteFailed(t) == WriteCall(t) /\ last'.exc # ""

-----------------------------------------------------------------------------
(* C1 *)

\* C1 as stated: whenever the table of a name is created, it is created by the
\* first write call made for that name (tables whose first write failed in a
\* type lookup, the subject of C10, are left aside).
C1_SetupByFirstWrite ==
    [][\A t \in TableNames :
         created'[t] # created[t] /\ first_write[t] # "KeyError"
             => first_write[t] = "none"]_vars

\* C1, amended: for every table name, table creation and the header write
\* happen at most once, in the first write call for that name whose schema
\* inference completes (no schema was stored before it); once a schema is
\* stored no call creates the table again, and once the table exists no call
\* changes any header attribute.
C1_SetupOnce ==
    [][\A t \in TableNames :
         /\ created'[t] <= 1
         /\ created'[t] # created[t] => ~Registered(t) /\ WriteCall(t)
         /\ Registered(t) => Registered(t)' /\ created'[t] = created[t]
         /\ Active(t) => Active(t)' /\ _tables'[t].attrs = _tables[t].attrs]_vars

\* a second row was written from a container whose meta has a RUN entry, into
\* a table whose header, set by the first write, has none
C1_Witness ==
    \E t \in DOMAIN _tables :
        /\ Len(_tables[t].rows) = 2
        /\ EVENT_ID \in DOMAIN _tables[t].rows[2]
        /\ _tables[t].rows[2][EVENT_ID] = <<7>>
        /\ RunKey \notin DOMAIN _tables[t].attrs
        /\ created[t] = 1

-----------------------------------------------------------------------------
(* C2 *)

\* the rows of the table of t in the file (none before the table exists)
Rows(t) == IF Active(t) THEN _tables[t].rows ELSE <<>>

\* the value a record gives a column under the transforms trs of the table
Transformed(trs, col, container) ==
    IF col \in DOMAIN trs THEN Call(trs[col], GetItem(container, col))
    ELSE GetItem(container, col)

\* C2: a successful write to a name appends exactly one row and keeps the rows
\* before it, any other call leaves the rows of the name as they are (so n
\* successful writes give n rows), and the appended row holds, for every
\* column of the schema, the record's value of that field after the transform
\* registered for the column when the row is built, or the raw value if none.
C2_RowsAreRecords ==
    [][\A t \in TableNames :
         /\ WriteOk(t) =>
              /\ Active(t)'
              /\ Len(Rows(t)') = Len(Rows(t)) + 1
              /\ SubSeq(Rows(t)', 1, Len(Rows(t))) = Rows(t)
         /\ ~WriteOk(t) => Rows(t)' = Rows(t)
         /\ \A c \in Containers, ok \in BOOLEAN :
              WriteOk(t) /\ write(t, c, ok) =>
                LET row == Rows(t)'[Len(Rows(t)')]
                IN /\ DOMAIN row = DOMAIN _schemas'[t]
                   /\ \A col \in DOMAIN row :
                        /\ HasField(c, col)
                        /\ row[col] = Transformed(_transforms'[t], col, c).v]_vars

\* two records written to one table, the energy of each converted to GeV
C2_Witness ==
    \E t \in DOMAIN _tables :
        /\ Len(_tables[t].rows) = 2
        /\ DOMAIN _tables[t].rows[1] = {ENERGY, EVENT_ID}
        /\ _tables[t].rows[1][ENERGY] = <<10000>>
        /\ _tables[t].rows[2][ENERGY] = <<2000>>
        /\ _tables[t].rows[2][EVENT_ID] = <<7>>
        /\ last = [op |-> "write", table_name |-> t, exc |-> ""]

-----------------------------------------------------------------------------
(* C3 *)

Units == DOMAIN UnitScale

\* C3 as stated: in every row a write appends, the cell of a quantity-valued
\* column is the magnitude of the record's quantity expressed in the unit the
\* header records under {column}_UNIT, also when the record gives the
\* quantity in another unit than the first record did.  (Stated for the
\* records whose field declares the unit the column's transform was built
\* from, so that a transform a caller registered in its place is not counted.)
C3_StoredInHeaderUnit ==
    [][\A t \in TableNames, c \in Containers, ok \in BOOLEAN :
         WriteOk(t) /\ write(t, c, ok) =>
           LET table == _tables'[t]
               row == table.rows[Len(table.rows)]
           IN \A col \in DOMAIN row :
                (/\ GetItem(c, col).kind = "Quantity"
                 /\ UnitKey(col) \in DOMAIN table.attrs
                 /\ table.attrs[UnitKey(col)] \in Units
                 /\ col \in DOMAIN _transforms'[t]
                 /\ _transforms'[t][col] = QuantityTransform(GetField(c, col)))
                => row[col][1] * UnitScale[table.attrs[UnitKey(col)]]
                     = GetItem(c, col).v[1] * UnitScale[GetItem(c, col).unit]]_vars

-----------------------------------------------------------------------------
(* C4 *)

WriteErrors == {"MissingFieldError", "ShapeMismatchError", "TransformError"}

\* C4 as stated: a write that fails on a missing field, a shape mismatch or a
\* raising transform leaves the name Unregistered or Active as it was, with
\* the same stored schema and the same committed rows, whether it is the first
\* write for the name or a later one.
C4_FailedWriteChangesNothing ==
    [][\A t \in TableNames :
         WriteCall(t) /\ last'.exc \in WriteErrors =>
           /\ Registered(t)' = Registered(t)
           /\ Active(t)' = Active(t)
           /\ Registered(t) => _schemas'[t] = _schemas[t]
           /\ Rows(t)' = Rows(t)]_vars

-----------------------------------------------------------------------------
(* C5 *)

\* the record lacks a field that is a column of the stored schema of t
LacksColumn(t, c) == \E col \in DOMAIN _schemas[t] : ~HasField(c, col)

\* the columns of the table of t that come before col in the order the
\* append visits them
ColumnsBefore(t, col) ==
    {_tables[t].colnames[i] : i \in {j \in 1..Len(_tables[t].colnames) :
         \E k \in j + 1..Len(_tables[t].colnames) : _tables[t].colnames[k] = col}}

\* the append gets past the column: the record has the field, the transform
\* of the column does not raise and the table takes the value
ColumnPasses(t, col, c) ==
    /\ HasField(c, col)
    /\ Transformed(_transforms[t], col, c) # Raised
    /\ SetColumn(_tables[t].description[col], Transformed(_transforms[t], col, c)).exc = ""

\* C5 as stated: a write to an Active table of a record that lacks a column
\* of the schema fails with the missing-field error and commits no row
\* (stated for the tables whose first write succeeded).
C5_MissingFieldError ==
    [][\A t \in TableNames, c \in Containers, ok \in BOOLEAN :
         Active(t) /\ first_write[t] = "" /\ write(t, c, ok) /\ LacksColumn(t, c) =>
           last'.exc = "MissingFieldError" /\ Rows(t)' = Rows(t)]_vars

\* C5, amended: a write to an Active table of a record that lacks a column of
\* the schema fails and commits no row, whichever column is missing; the
\* failure is the missing-field error whenever every column the append visits
\* before the first missing one passes (a transform or the table raising on
\* an earlier column is reported instead).
C5_MissingFieldFails ==
    [][\A t \in TableNames, c \in Containers, ok \in BOOLEAN :
         Active(t) /\ write(t, c, ok) /\ LacksColumn(t, c) =>
           /\ last'.exc # ""
           /\ Rows(t)' = Rows(t)
           /\ _tables'[t] = _tables[t]
           /\ (\E col \in DOMAIN _schemas[t] :
                 /\ ~HasField(c, col)
                 /\ \A b \in ColumnsBefore(t, col) : ColumnPasses(t, b, c))
              => last'.exc = "MissingFieldError"]_vars

\* a write of a record without event_id to a table that has the column failed
\* with the missing-field error, the table keeping its one row
C5_Witness ==
    \E t \in DOMAIN _tables :
        /\ last = [op |-> "write", table_name |-> t, exc |-> "MissingFieldError"]
        /\ EVENT_ID \in DOMAIN _schemas[t]
        /\ ENERGY \in DOMAIN _schemas[t]
        /\ Len(_tables[t].rows) = 1

-----------------------------------------------------------------------------
(* C6 *)

\* pattern p matches the name from its first character on
PrefixOf(p, name) == Len(p) <= Len(name) /\ SubSeq(name, 1, Len(p)) = p

\* some pattern registered for t matches the column name
ExcludedBy(exclusions, t, col) ==
    \E i \in 1..Len(exclusions[t]) : PrefixOf(exclusions[t][i], col)

\* C6: a column that a pattern registered before the first write excludes is
\* not in the schema that write stores and never enters it; later writes do
\* not read its field: they fail on a missing field only if a column of the
\* schema is missing from the record, and the row they append has the columns
\* of the schema and no other.
C6_ExcludedNeverWritten ==
    [][\A t \in TableNames :
         /\ ~Registered(t) /\ Registered(t)' =>
              \A col \in ColNames :
                  ExcludedBy(_exclusions, t, col) => col \notin DOMAIN _schemas'[t]
         /\ Registered(t) =>
              /\ Registered(t)'
              /\ \A col \in ColNames :
                   col \notin DOMAIN _schemas[t] => col \notin DOMAIN _schemas'[t]
         /\ \A c \in Containers, ok \in BOOLEAN :
              Active(t) /\ write(t, c, ok) =>
                /\ last'.exc = "MissingFieldError" =>
                     \E col \in DOMAIN _schemas[t] : ~HasField(c, col)
                /\ last'.exc = "" =>
                     DOMAIN Rows(t)'[Len(Rows(t)')] = DOMAIN _schemas[t]]_vars

\* with the pattern r registered, a table made from a record that has raw_id
\* holds event_id alone, and a second record, which has no raw_id, was
\* written to it
C6_Witness ==
    \E t \in DOMAIN _tables :
        /\ ExcludedBy(_exclusions, t, RAW_ID)
        /\ DOMAIN _schemas[t] = {EVENT_ID}
        /\ Len(_tables[t].rows) = 2
        /\ _tables[t].rows[1] = Put(EmptyMap, EVENT_ID, <<3>>)
        /\ _tables[t].rows[2] = Put(EmptyMap, EVENT_ID, <<42>>)
        /\ last = [op |-> "write", table_name |-> t, exc |-> ""]

-----------------------------------------------------------------------------
(* C7 *)

\* C7: once a schema is stored for a name, no call on any name changes it,
\* the table created from it keeps its columns and their descriptors, and
\* every row appended later has exactly the columns of the schema, also the
\* ones a pattern registered after the first write matches.
C7_SchemaFixed ==
    [][\A t \in TableNames :
         /\ Registered(t) => Registered(t)' /\ _schemas'[t] = _schemas[t]
         /\ Active(t) =>
              /\ Active(t)'
              /\ _tables'[t].description = _tables[t].description
              /\ _tables'[t].colnames = _tables[t].colnames
         /\ Active(t)' => _tables'[t].description = _schemas'[t]
         /\ Registered(t) /\ WriteOk(t) =>
              DOMAIN Rows(t)'[Len(Rows(t)')] = DOMAIN _schemas[t]]_vars

\* a pattern registered after the first write matches a column of the schema,
\* and the row written after it still has the column
C7_Witness ==
    \E t \in DOMAIN _tables :
        \E col \in DOMAIN _schemas[t] :
            /\ ExcludedBy(_exclusions, t, col)
            /\ Len(_tables[t].rows) = 2
            /\ col \in DOMAIN _tables[t].rows[2]
            /\ last = [op |-> "write", table_name |-> t, exc |-> ""]

-----------------------------------------------------------------------------
(* C8 *)

\* C8: add_column_transform(t, col, f) makes f the transform of (t, col),
\* whatever was registered before, and changes no table, schema or row; a
\* write to an Active table changes no transform; and the row such a write
\* appends holds f(record[col]) for every column of the schema that has a
\* transform f registered.
C8_LateTransformApplies ==
    [][\A t \in TableNames :
         /\ \A col \in ColNames, tr \in UserTransforms :
              add_column_transform(t, col, tr) =>
                /\ col \in DOMAIN _transforms'[t]
                /\ _transforms'[t][col] = tr
                /\ \A other \in DOMAIN _transforms[t] \ {col} :
                     other \in DOMAIN _transforms'[t]
                       /\ _transforms'[t][other] = _transforms[t][other]
                /\ _tables' = _tables
                /\ _schemas' = _schemas
         /\ Active(t) /\ WriteCall(t) => _transforms' = _transforms
         /\ \A c \in Containers, ok \in BOOLEAN :
              Active(t) /\ WriteOk(t) /\ write(t, c, ok) =>
                \A col \in DOMAIN _schemas[t] :
                    col \in DOMAIN _transforms[t] =>
                      Rows(t)'[Len(Rows(t)')][col]
                        = Call(_transforms[t][col], GetItem(c, col)).v]_vars

\* the first row holds the energy in GeV, as inference arranged; the caller
\* then registered a conversion to TeV, and the second row holds 2000 GeV as 2
C8_Witness ==
    \E t \in DOMAIN _tables :
        /\ ENERGY \in DOMAIN _transforms[t]
        /\ _transforms[t][ENERGY] = partial_convert("TeV")
        /\ UnitKey(ENERGY) \in DOMAIN _tables[t].attrs
        /\ _tables[t].attrs[UnitKey(ENERGY)] = "GeV"
        /\ Len(_tables[t].rows) = 2
        /\ _tables[t].rows[1][ENERGY] = <<10000>>
        /\ _tables[t].rows[2][ENERGY] = <<2>>

-----------------------------------------------------------------------------
(* C9 *)

\* C9 as stated: at a first write that returns, a column that has a
\* transform registered before the call gets the kind and shape of the
\* transformed value of the first record's field (where the transform returns
\* a value and the column is not excluded).
C9_SchemaOfTransformedValue ==
    [][\A t \in TableNames, c \in Containers, ok \in BOOLEAN :
         ~Registered(t) /\ write(t, c, ok) /\ WriteOk(t) =>
           \A col \in DOMAIN _transforms[t] :
               (/\ HasField(c, col)
                /\ ~ExcludedBy(_exclusions, t, col)
                /\ Call(_transforms[t][col], GetItem(c, col)) # Raised)
               => LET val == Call(_transforms[t][col], GetItem(c, col))
                  IN IF val.kind = "ndarray"
                     THEN /\ col \in DOMAIN _schemas'[t]
                          /\ _schemas'[t][col].shape = <<Len(val.v)>>
                          /\ _schemas'[t][col].type = PYTABLES_TYPE_MAP[val.dtype]
                     ELSE /\ col \in DOMAIN _schemas'[t]
                          /\ _schemas'[t][col] = Col(PYTABLES_TYPE_MAP[val.kind], <<>>)]_vars

-----------------------------------------------------------------------------
(* C10 *)

\* C10 as stated: the first write of a record never fails on a field whose
\* type, or element type, is outside PYTABLES_TYPE_MAP.
C10_UnknownTypeOmitted ==
    [][\A t \in TableNames : WriteCall(t) /\ ~Registered(t) => last'.exc # "KeyError"]_vars

-----------------------------------------------------------------------------
(* C11 *)

\* the fields of a record that give the table a unit-bearing column: the
\* quantity-valued fields no pattern registered for t excludes
UnitFields(t, c) ==
    {i \in 1..Len(c.items) :
        c.items[i].value.kind = "Quantity" /\ ~ExcludedBy(_exclusions, t, c.items[i].name)}

\* the unit string the header gets for a unit-bearing field: the declared
\* unit, or the unit of the quantity if none is declared
TargetUnit(item) == IF item.unit # None THEN item.unit ELSE item.value.unit

\* the header has the keys of the unit entries, the version tag and the
\* record's meta, and no other; every key of the record's meta has the
\* record's value; every unit entry the record's meta does not name has the
\* target unit of its column
HeaderOfUnitsAndMeta(t, c, attrs) ==
    /\ DOMAIN attrs = {UnitKey(c.items[i].name) : i \in UnitFields(t, c)}
                        \cup {VersionKey} \cup DOMAIN c.meta
    /\ \A k \in DOMAIN c.meta : attrs[k] = c.meta[k]
    /\ \A i \in UnitFields(t, c) :
         UnitKey(c.items[i].name) \notin DOMAIN c.meta
           => attrs[UnitKey(c.items[i].name)] = TargetUnit(c.items[i])

\* C11 as stated: the header written when the table is created is the union
\* of the unit entries, the library-version tag and the first record's meta;
\* a meta key that collides with a unit key takes the meta's value, and no
\* other key is lost or altered: the version tag is the library's version.
C11_HeaderIsUnion ==
    [][\A t \in TableNames, c \in Containers, ok \in BOOLEAN :
         ~Active(t) /\ write(t, c, ok) /\ Active(t)' =>
           /\ HeaderOfUnitsAndMeta(t, c, _tables'[t].attrs)
           /\ _tables'[t].attrs[VersionKey] = ctapipe_version]_vars

\* what holds of the header at creation: its keys are those of the unit
\* entries, the version tag and the record's meta, and every key of the
\* record's meta, the version tag's key included, has the record's value
C11_HeaderUnitsAndMeta ==
    [][\A t \in TableNames, c \in Containers, ok \in BOOLEAN :
         ~Active(t) /\ write(t, c, ok) /\ Active(t)' =>
           HeaderOfUnitsAndMeta(t, c, _tables'[t].attrs)]_vars

-----------------------------------------------------------------------------
(* C12 *)

\* what the writer holds for one table name
SchemaOf(t) == IF Registered(t) THEN _schemas[t] ELSE EmptyMap
TableOf(t) == IF Active(t) THEN <<_tables[t]>> ELSE <<>>

\* the writer with everything it holds for names other than b removed
Alone(b) ==
    [transforms |-> [t \in TableNames |-> IF t = b THEN _transforms[t] ELSE EmptyMap],
     schemas |-> [t \in DOMAIN _schemas \cap {b} |-> _schemas[t]],
     tables |-> [t \in DOMAIN _tables \cap {b} |-> _tables[t]],
     created |-> [t \in TableNames |-> IF t = b THEN created[t] ELSE 0],
     exc |-> ""]

ExclusionsAlone(b) == [t \in TableNames |-> IF t = b THEN _exclusions[t] ELSE <<>>]

\* C12: a call made for a table name a leaves, for every other name b, the
\* exclusion list, the transforms, the lifecycle state, the schema and the
\* table (header and rows) of b as they were; and a write to b gives b the
\* transforms, schema, table and outcome it would give on a writer that holds
\* nothing for any other name, so the first write to b sets b up by itself,
\* whether or not another table is Active.
C12_TablesIsolated ==
    [][\A b \in TableNames :
         /\ last'.table_name # b =>
              /\ _exclusions'[b] = _exclusions[b]
              /\ _transforms'[b] = _transforms[b]
              /\ Registered(b)' = Registered(b)
              /\ Active(b)' = Active(b)
              /\ SchemaOf(b)' = SchemaOf(b)
              /\ TableOf(b)' = TableOf(b)
              /\ created'[b] = created[b]
         /\ \A c \in Containers, ok \in BOOLEAN :
              write(b, c, ok) =>
                LET alone == DoWrite(ExclusionsAlone(b), Alone(b), b, c, ok)
                IN /\ _transforms'[b] = alone.transforms[b]
                   /\ SchemaOf(b)' = IF b \in DOMAIN alone.schemas
                                     THEN alone.schemas[b] ELSE EmptyMap
                   /\ TableOf(b)' = IF b \in DOMAIN alone.tables
                                    THEN <<alone.tables[b]>> ELSE <<>>
                   /\ last'.exc = alone.exc
                   /\ ~Registered(b) /\ last'.exc = "" => created'[b] = created[b] + 1]_vars

\* with the pattern r registered for one table only, the same record was
\* written first to that table and then to the other: the first table lacks
\* raw_id, the second, set up while the first was Active, has it
C12_Witness ==
    \E a \in DOMAIN _tables, b \in DOMAIN _tables :
        /\ a # b
        /\ ExcludedBy(_exclusions, a, RAW_ID) /\ _exclusions[b] = <<>>
        /\ DOMAIN _schemas[a] = {EVENT_ID}
        /\ DOMAIN _schemas[b] = {EVENT_ID, RAW_ID}
        /\ Len(_tables[a].rows) = 1 /\ Len(_tables[b].rows) = 1
        /\ last = [op |-> "write", table_name |-> b, exc |-> ""]

-----------------------------------------------------------------------------
(* C13 *)

\* the patterns registered for t, without their order
PatternsOf(exclusions, t) == {exclusions[t][i] : i \in 1..Len(exclusions[t])}

\* the list in the opposite order
Reversed(s) == [i \in 1..Len(s) |-> s[Len(s) + 1 - i]]

\* C13: for every table and column name, _is_column_excluded is true exactly
\* when some pattern registered for the table matches the name from its first
\* character on (a pattern found only further inside the name does not
\* count), and it gives the same answer with the patterns in another order.
C13_ExcludedIffAnchoredMatch ==
    \A t \in TableNames, col \in ColNames :
        /\ _is_column_excluded(_exclusions, t, col)
             <=> \E p \in PatternsOf(_exclusions, t) : PrefixOf(p, col)
        /\ _is_column_excluded(_exclusions, t, col)
             <=> _is_column_excluded([_exclusions EXCEPT ![t] = Reversed(@)], t, col)

\* the pattern id, which occurs inside raw_id but not at its start, is the
\* second of two patterns registered for a table; the first write made
\* afterwards stored a schema with raw_id and without event_id
C13_Witness ==
    \E t \in DOMAIN _schemas :
        /\ Len(_exclusions[t]) = 2
        /\ _exclusions[t][2] = EVENT_ID /\ _exclusions[t][1] = ENERGY
        /\ ~_is_column_excluded(_exclusions, t, RAW_ID)
        /\ _is_column_excluded(_exclusions, t, EVENT_ID)
        /\ DOMAIN _schemas[t] = {RAW_ID}
        /\ last = [op |-> "write", table_name |-> t, exc |-> ""]

-----------------------------------------------------------------------------
(* C14 *)

\* C14 as stated: in every reachable state a table name has a stored schema
\* if and only if it has a table handle.
C14_SchemaIffHandle ==
    \A t \in TableNames : Registered(t) <=> Active(t)

\* C14 as stated, second part: a write to a name that has no table handle
\* runs the setup; it never tries to append to the missing table.
C14_WriteWithoutHandleSetsUp ==
    [][\A t \in TableNames :
         WriteCall(t) /\ ~Active(t) => last'.exc # "TablesKeyError"]_vars

-----------------------------------------------------------------------------
(* C15 *)

\* C15 as stated: a write that returns leaves every transform the caller
\* registered in place, so that it is the one later appends apply, also when
\* the column's value in the first record is a quantity.
C15_CallerTransformKept ==
    [][\A t \in TableNames :
         WriteOk(t) =>
           \A col \in DOMAIN _transforms[t] :
               _transforms[t][col] \in UserTransforms
                 => col \in DOMAIN _transforms'[t]
                      /\ _transforms'[t][col] = _transforms[t][col]]_vars

-----------------------------------------------------------------------------
(* C16 *)

\* C16 as stated: a first write whose schema inference raises (the name has
\* no schema before the call and none after it) leaves the writer as it was:
\* no schema, no table, and the transforms of the name as before the call.
C16_FailedInferenceChangesNothing ==
    [][\A t \in TableNames :
         WriteCall(t) /\ ~Registered(t) /\ ~Registered(t)' =>
           /\ last'.exc # ""
           /\ ~Active(t)'
           /\ _schemas' = _schemas
           /\ _tables' = _tables
           /\ _exclusions' = _exclusions
           /\ _transforms' = _transforms]_vars

\* what holds of C16: the name stays without schema and without table
C16_FailedInferenceStaysUnregistered ==
    [][\A t \in TableNames :
         WriteCall(t) /\ ~Registered(t) /\ ~Registered(t)' =>
           /\ last'.exc \in {"TransformError", "KeyError"}
           /\ ~Active(t)'
           /\ _schemas' = _schemas
           /\ _tables' = _tables
           /\ _exclusions' = _exclusions]_vars

====
